---- MODULE Spec2Model ----
(***************************************************************************)
(* Model of MultivariableFunctionCalculator.py: the generator get_values,  *)
(* the class FunctionCalculator (constructor, the derivation of the five   *)
(* symbolic expressions, evaluate_derivative_at_stationary_points, solve)  *)
(* and the caller of example.py.                                           *)
(*                                                                         *)
(* A sympy expression is modelled as a polynomial over the four symbols    *)
(* A, B, x, y with rational coefficients: a set of terms, one per          *)
(* monomial, none with coefficient zero.  evalf(subs=...) is substitution  *)
(* followed by collection of like terms; the numbers it produces are kept  *)
(* exact (the coordinates and candidates used here are small integers).    *)
(***************************************************************************)
EXTENDS Integers, Sequences, FiniteSets, TLC

\* ------------------------------------------------------------------ bounds
CoordMax == 1
MaxN == 2

\* ------------------------------------------------------- program constants
ExampleN == 1000
ExampleMaxX == 25
ExampleMaxY == 15
ExampleMinX == -5
ExampleMinY == -12
ExampleSaddleX == 0
ExampleSaddleY == 0

NotFoundMessage == "Solution could not be found"

\* ---------------------------------------------------- rational arithmetic
Abs(k) == IF k < 0 THEN -k ELSE k

Min(a, b) == IF a < b THEN a ELSE b

Max(a, b) == IF a < b THEN b ELSE a

RECURSIVE Gcd(_, _)
Gcd(a, b) == IF b = 0 THEN a ELSE Gcd(b, a % b)

\* a rational is <<numerator, denominator>> in lowest terms, denominator > 0
Rat(num, den) ==
  LET g == Gcd(Abs(num), Abs(den))
      s == IF den < 0 THEN -1 ELSE 1
  IN  <<(s * num) \div g, (s * den) \div g>>

RatAdd(p, q) == Rat(p[1] * q[2] + q[1] * p[2], p[2] * q[2])

RatMul(p, q) == Rat(p[1] * q[1], p[2] * q[2])

RECURSIVE Pow(_, _)
Pow(b, e) == IF e = 0 THEN 1 ELSE b * Pow(b, e - 1)

\* ------------------------------------------------- symbolic expressions
Symbols == {"A", "B", "x", "y"}

One == [s \in Symbols |-> 0]

Term(c, e) == [c |-> c, e |-> e]

RECURSIVE SumCoeffs(_)
SumCoeffs(ts) ==
  IF ts = {} THEN <<0, 1>>
  ELSE LET t == CHOOSE u \in ts : TRUE
       IN  RatAdd(t.c, SumCoeffs(ts \ {t}))

\* collect like terms of a set of tagged terms and drop the zero ones
Collect(ts) ==
  LET monos == {t.e : t \in ts}
      coeff(m) == SumCoeffs({t \in ts : t.e = m})
  IN  {t \in {Term(coeff(m), m) : m \in monos} : t.c[1] # 0}

Symbol(s) == {Term(<<1, 1>>, [One EXCEPT ![s] = 1])}

Number(k) == IF k = 0 THEN {} ELSE {Term(<<k, 1>>, One)}

\* terms are tagged with their origin so that equal terms of the two
\* operands are not merged before their coefficients are added
Add(p, q) ==
  Collect({[c |-> t.c, e |-> t.e, tag |-> 1] : t \in p}
            \cup {[c |-> t.c, e |-> t.e, tag |-> 2] : t \in q})

Neg(p) == {Term(<<-t.c[1], t.c[2]>>, t.e) : t \in p}

Sub(p, q) == Add(p, Neg(q))

Mul(p, q) ==
  Collect({[c |-> RatMul(t.c, u.c),
            e |-> [s \in Symbols |-> t.e[s] + u.e[s]],
            tag |-> <<t, u>>] : t \in p, u \in q})

\* expr.diff(s)
Diff(p, s) ==
  Collect({[c |-> RatMul(t.c, <<t.e[s], 1>>),
            e |-> [t.e EXCEPT ![s] = t.e[s] - 1],
            tag |-> t] : t \in {u \in p : u.e[s] > 0}})

\* integrate(expr, s), constant of integration 0
Integrate(p, s) ==
  Collect({[c |-> RatMul(t.c, Rat(1, t.e[s] + 1)),
            e |-> [t.e EXCEPT ![s] = t.e[s] + 1],
            tag |-> t] : t \in p})

\* expr.evalf(subs=bindings): bindings is a function from some symbols to
\* integers; every bound symbol is replaced by its value and like terms are
\* collected
Evalf(p, bindings) ==
  LET bound == DOMAIN bindings
      factor(t, s) == IF s \in bound THEN Pow(bindings[s], t.e[s]) ELSE 1
  IN  Collect({[c |-> RatMul(t.c, <<factor(t, "A") * factor(t, "B")
                                      * factor(t, "x") * factor(t, "y"), 1>>),
                e |-> [s \in Symbols |-> IF s \in bound THEN 0 ELSE t.e[s]],
                tag |-> t] : t \in p})

IsNumber(p) == \A t \in p : t.e = One

\* numerator of the value of a fully evaluated expression (its sign is the
\* sign of the value)
Value(p) == IF p = {} THEN 0 ELSE (CHOOSE t \in p : TRUE).c[1]

Lt0(p) == IsNumber(p) /\ Value(p) < 0

Gt0(p) == IsNumber(p) /\ Value(p) > 0

Ne0(p) == ~(IsNumber(p) /\ Value(p) = 0)

\* ------------------------------------------------------------ get_values
\* faulty variant of Range: the stop value is included
RangeInclusive(start, stop, step) ==
  LET len == IF step > 0
             THEN Max(0, (stop - start + step) \div step)
             ELSE Max(0, (start - stop - step) \div (-step))
  IN  [i \in 1..len |-> start + (i - 1) * step]

\* range(start, stop, step) as a sequence
Range(start, stop, step) ==
  LET len == IF step > 0
             THEN Max(0, (stop - start + step - 1) \div step)
             ELSE Max(0, (start - stop - step - 1) \div (-step))
  IN  [i \in 1..len |-> start + (i - 1) * step]

\* zip(s, t): stops with the shorter operand
Zip(s, t) == [i \in 1..Min(Len(s), Len(t)) |-> <<s[i], t[i]>>]

\* chain(*ss) for the iterables ss[lo..hi]
RECURSIVE ChainRange(_, _, _)
ChainRange(ss, lo, hi) ==
  IF lo > hi THEN <<>>
  ELSE IF lo = hi THEN ss[lo]
  ELSE LET mid == (lo + hi) \div 2
       IN  ChainRange(ss, lo, mid) \o ChainRange(ss, mid + 1, hi)

Chain(ss) == ChainRange(ss, 1, Len(ss))

\* faulty variant of Numbers: the trailing [n] is missing
NumbersNoTail(n) == Chain(Zip(Range(0, n + 1, 1), Range(-1, -n - 1, -1)))

\* faulty variant of Numbers: the zip does not stop with the shorter range, so that
\* n is emitted by it and once more by the trailing [n]
NumbersTwice(n) ==
  Chain(Append(Zip(Range(0, n + 1, 1), Range(-1, -n - 1, -1)), <<n, n>>))

\* faulty variant of Numbers: numbers = range(-n, n + 1)
NumbersAscending(n) == Range(-n, n + 1, 1)

\* numbers = chain(*zip(range(n + 1), range(-1, -n - 1, -1)), [n])
Numbers(n) ==
  Chain(Append(Zip(Range(0, n + 1, 1), Range(-1, -n - 1, -1)), <<n>>))

\* product(pool, repeat=2): number of tuples and the k-th tuple (k from 1),
\* the rightmost coordinate advancing on every tuple
ProductLen(pool) == Len(pool) * Len(pool)

\* faulty variant of ProductAt: the leftmost coordinate advances on every tuple
ProductAtColumnMajor(pool, k) ==
  <<pool[((k - 1) % Len(pool)) + 1], pool[((k - 1) \div Len(pool)) + 1]>>

ProductAt(pool, k) ==
  <<pool[((k - 1) \div Len(pool)) + 1], pool[((k - 1) % Len(pool)) + 1]>>

\* faulty variant of get_values: no test of n < 0
get_values_unguarded(n) == [pool |-> Numbers(n), k |-> 0]

\* get_values(n): the generator, as the pool product() iterates over and
\* the number of tuples already yielded; for n < 0 it returns at once
get_values(n) ==
  IF n < 0 THEN [pool |-> <<>>, k |-> 0]
  ELSE [pool |-> Numbers(n), k |-> 0]

\* ----------------------------------------------------- FunctionCalculator
get_first_order_partial_derivatives(max_x, min_y) ==
  LET A == Symbol("A")
      B == Symbol("B")
      x == Symbol("x")
      y == Symbol("y")
  IN  [f_x |-> Sub(Mul(Mul(A, x), x), Mul(Mul(A, x), Number(max_x))),
       f_y |-> Sub(Mul(Mul(B, y), y), Mul(Mul(B, y), Number(min_y)))]

\* faulty variant of get_general_form: f_y is integrated with respect to x
get_general_form_wrong_symbol(f_x, f_y) ==
  LET func_x == Integrate(f_x, "x")
      func_y == Integrate(f_y, "x")
  IN  Add(func_y, func_x)

get_general_form(f_x, f_y) ==
  LET func_x == Integrate(f_x, "x")
      func_y == Integrate(f_y, "y")
  IN  Add(func_y, func_x)

get_second_partial_derivatives(f_x, f_y) ==
  LET f_xx == Diff(f_x, "x")
      f_yy == Diff(f_y, "y")
      f_xy == Diff(f_x, "y")
  IN  [f_xx |-> f_xx, d_xy |-> Sub(Mul(f_xx, f_yy), Mul(f_xy, f_xy))]

\* FunctionCalculator.__init__
NewCalculator(maximum, minimum, saddle, print_steps) ==
  LET d1 == get_first_order_partial_derivatives(maximum[1], minimum[2])
      d2 == get_second_partial_derivatives(d1.f_x, d1.f_y)
  IN  [max_x |-> maximum[1], max_y |-> maximum[2],
       min_x |-> minimum[1], min_y |-> minimum[2],
       saddle_x |-> saddle[1], saddle_y |-> saddle[2],
       print_steps |-> print_steps,
       f_x |-> d1.f_x, f_y |-> d1.f_y,
       general_form |-> get_general_form(d1.f_x, d1.f_y),
       f_xx |-> d2.f_xx, d_xy |-> d2.d_xy]

AtPoint(px, py) == [s \in {"x", "y"} |-> IF s = "x" THEN px ELSE py]

\* faulty variant of evaluate_derivative_at_stationary_points: building the table
\* overwrites d_at_saddle with the entry of the maximum
evaluate_derivative_print_clobbers(c) ==
  LET f_xx_at_max == Evalf(c.f_xx, AtPoint(c.max_x, c.max_y))
      f_xx_at_min == Evalf(c.f_xx, AtPoint(c.min_x, c.min_y))
      f_xx_at_saddle == Evalf(c.f_xx, AtPoint(c.saddle_x, c.saddle_y))
      d_at_max == Evalf(c.d_xy, AtPoint(c.max_x, c.max_y))
      d_at_min == Evalf(c.d_xy, AtPoint(c.min_x, c.min_y))
      d_at_saddle == IF c.print_steps
                     THEN Neg(d_at_max)
                     ELSE Evalf(c.d_xy, AtPoint(c.saddle_x, c.saddle_y))
  IN  [values |-> [f_xx_at_max |-> f_xx_at_max, f_xx_at_min |-> f_xx_at_min,
                   f_xx_at_saddle |-> f_xx_at_saddle, d_at_max |-> d_at_max,
                   d_at_min |-> d_at_min, d_at_saddle |-> d_at_saddle],
       printed |-> IF c.print_steps THEN <<d_at_saddle>> ELSE <<>>]

\* the six expressions evaluate_derivative_at_stationary_points returns
\* (A and B still free) and the table it prints when print_steps is set
evaluate_derivative_at_stationary_points(c) ==
  LET f_xx_at_max == Evalf(c.f_xx, AtPoint(c.max_x, c.max_y))
      f_xx_at_min == Evalf(c.f_xx, AtPoint(c.min_x, c.min_y))
      f_xx_at_saddle == Evalf(c.f_xx, AtPoint(c.saddle_x, c.saddle_y))
      d_at_max == Evalf(c.d_xy, AtPoint(c.max_x, c.max_y))
      d_at_min == Evalf(c.d_xy, AtPoint(c.min_x, c.min_y))
      d_at_saddle == Evalf(c.d_xy, AtPoint(c.saddle_x, c.saddle_y))
      data == << <<c.max_x, c.max_y, "Maximum", f_xx_at_max, "< 0", d_at_max, "> 0">>,
                 <<c.min_x, c.min_y, "Minimum", f_xx_at_min, "> 0", d_at_min, "> 0">>,
                 <<c.saddle_x, c.saddle_y, "Saddle", f_xx_at_saddle, "!= 0", d_at_saddle, "< 0">> >>
  IN  [values |-> [f_xx_at_max |-> f_xx_at_max, f_xx_at_min |-> f_xx_at_min,
                   f_xx_at_saddle |-> f_xx_at_saddle, d_at_max |-> d_at_max,
                   d_at_min |-> d_at_min, d_at_saddle |-> d_at_saddle],
       printed |-> IF c.print_steps THEN data ELSE <<>>]

FullSubs(px, py, a, b) ==
  [s \in Symbols |-> CASE s = "x" -> px [] s = "y" -> py [] s = "A" -> a [] OTHER -> b]

\* the list evaluated_funcs of one iteration of the loop of solve
evaluated_funcs(c, v, a, b) ==
  LET subs_at_max == FullSubs(c.max_x, c.max_y, a, b)
      subs_at_min == FullSubs(c.min_x, c.min_y, a, b)
      subs_at_saddle == FullSubs(c.saddle_x, c.saddle_y, a, b)
  IN  << Lt0(Evalf(v.f_xx_at_max, subs_at_max)),
         Gt0(Evalf(v.f_xx_at_min, subs_at_min)),
         Ne0(Evalf(v.f_xx_at_saddle, subs_at_saddle)),
         Gt0(Evalf(v.d_at_max, subs_at_max)),
         Gt0(Evalf(v.d_at_min, subs_at_min)),
         Lt0(Evalf(v.d_at_saddle, subs_at_saddle)) >>

\* faulty variant of All: any() in place of all()
AnyOf(bs) == \E i \in DOMAIN bs : bs[i]

All(bs) == \A i \in DOMAIN bs : bs[i]

\* what solve returns: an expression or the message
Expression(e) == [kind |-> "expression", expr |-> e, text |-> ""]

Message(m) == [kind |-> "message", expr |-> {}, text |-> m]

NoResult == [kind |-> "none", expr |-> {}, text |-> ""]

full_func(c, a, b) ==
  Evalf(c.general_form, [s \in {"A", "B"} |-> IF s = "A" THEN a ELSE b])

\* -------------------------------------------------------------- the state
VARIABLES
  self,      \* the calculator instance (its attributes)
  pc,        \* "idle": no call of solve yet, "loop": inside the for loop,
             \* "done": solve has returned
  n,         \* the argument of the current call of solve
  values,    \* the six local expressions of solve
  gen,       \* the generator get_values(n)
  item,      \* the loop variable (a, b); <<>> before the first iteration
  result,    \* the value returned by the current call of solve
  stdout     \* what the current call of solve has printed

vars == <<self, pc, n, values, gen, item, result, stdout>>

Coords == (-CoordMax)..CoordMax

Points == {p \in Coords \X Coords : Abs(p[1]) + Abs(p[2]) <= CoordMax}

Bounds == (-1)..MaxN

ExampleMaximum == <<ExampleMaxX, ExampleMaxY>>

ExampleMinimum == <<ExampleMinX, ExampleMinY>>

ExampleSaddle == <<ExampleSaddleX, ExampleSaddleY>>

IsExample ==
  /\ <<self.max_x, self.max_y>> = ExampleMaximum
  /\ <<self.min_x, self.min_y>> = ExampleMinimum
  /\ <<self.saddle_x, self.saddle_y>> = ExampleSaddle

NoValues == evaluate_derivative_at_stationary_points(
              NewCalculator(<<0, 0>>, <<0, 0>>, <<0, 0>>, FALSE)).values

Init ==
  /\ \E maximum \in Points, minimum \in Points, saddle \in Points,
        print_steps \in BOOLEAN, example \in BOOLEAN :
       self = IF example
              THEN NewCalculator(ExampleMaximum, ExampleMinimum, ExampleSaddle,
                                 print_steps)
              ELSE NewCalculator(maximum, minimum, saddle, print_steps)
  /\ pc = "idle"
  /\ n = 0
  /\ values = NoValues
  /\ gen = get_values(-1)
  /\ item = <<>>
  /\ result = NoResult
  /\ stdout = <<>>

\* solve(n=bound) up to the start of the for loop
SolveCall(bound) ==
  /\ pc # "loop"
  /\ LET r == evaluate_derivative_at_stationary_points(self)
     IN  /\ values' = r.values
         /\ stdout' = r.printed
  /\ n' = bound
  /\ gen' = get_values(bound)
  /\ item' = <<>>
  /\ result' = NoResult
  /\ pc' = "loop"
  /\ UNCHANGED self

\* faulty variant of LoopBody: the loop does not return at the first accepted pair
\* but goes on, and solve returns the last pair accepted
LoopBodyLastMatch ==
  /\ pc = "loop"
  /\ gen.k < ProductLen(gen.pool)
  /\ LET it == ProductAt(gen.pool, gen.k + 1)
         later == (gen.k + 2)..ProductLen(gen.pool)
         accepted(t) == All(evaluated_funcs(self, values, t[1], t[2]))
     IN  /\ gen' = [gen EXCEPT !.k = gen.k + 1]
         /\ item' = it
         /\ IF accepted(it) /\ \A j \in later : ~accepted(ProductAt(gen.pool, j))
            THEN /\ result' = Expression(full_func(self, it[1], it[2]))
                 /\ pc' = "done"
            ELSE UNCHANGED <<result, pc>>
  /\ UNCHANGED <<self, n, values, stdout>>

\* one iteration of the for loop: the next tuple is taken from the
\* generator and either accepted (solve returns) or rejected
LoopBody ==
  /\ pc = "loop"
  /\ gen.k < ProductLen(gen.pool)
  /\ LET it == ProductAt(gen.pool, gen.k + 1)
         a == it[1]
         b == it[2]
     IN  /\ gen' = [gen EXCEPT !.k = gen.k + 1]
         /\ item' = it
         /\ IF All(evaluated_funcs(self, values, a, b))
            THEN /\ result' = Expression(full_func(self, a, b))
                 /\ pc' = "done"
            ELSE UNCHANGED <<result, pc>>
  /\ UNCHANGED <<self, n, values, stdout>>

\* the else branch of the for loop: the generator is exhausted
LoopElse ==
  /\ pc = "loop"
  /\ gen.k >= ProductLen(gen.pool)
  /\ result' = Message(NotFoundMessage)
  /\ pc' = "done"
  /\ UNCHANGED <<self, n, values, gen, item, stdout>>

\* example.py calls solve(n=1000) on its calculator
SolveExample == IsExample /\ SolveCall(ExampleN)

Solve == \E bound \in Bounds : SolveCall(bound)

Next == Solve \/ SolveExample \/ LoopBody \/ LoopElse

Spec == Init /\ [][Next]_vars

\* ============================================================== claims
\* the six predicates for the pair (a, b), by direct substitution of the
\* pair and of each stationary point into f_xx and d_xy
SixPredicates(c, a, b) ==
  /\ Lt0(Evalf(c.f_xx, FullSubs(c.max_x, c.max_y, a, b)))
  /\ Gt0(Evalf(c.f_xx, FullSubs(c.min_x, c.min_y, a, b)))
  /\ Ne0(Evalf(c.f_xx, FullSubs(c.saddle_x, c.saddle_y, a, b)))
  /\ Gt0(Evalf(c.d_xy, FullSubs(c.max_x, c.max_y, a, b)))
  /\ Gt0(Evalf(c.d_xy, FullSubs(c.min_x, c.min_y, a, b)))
  /\ Lt0(Evalf(c.d_xy, FullSubs(c.saddle_x, c.saddle_y, a, b)))

\* the k-th candidate of the sequence get_values(bound) yields
Candidate(bound, k) == ProductAt(get_values(bound).pool, k)

CandidateCount(bound) == ProductLen(get_values(bound).pool)

Satisfies(c, bound, k) ==
  SixPredicates(c, Candidate(bound, k)[1], Candidate(bound, k)[2])

Found == pc = "done" /\ result.kind = "expression"

NotFound == pc = "done" /\ result = Message(NotFoundMessage)

\* C1: when solve(n) returns an expression, the accepted pair is the
\* earliest pair of get_values(n) that satisfies all six predicates: every
\* pair before it fails one, the expression is the general form at that
\* pair, and the generator has yielded nothing after it.
C1_FirstMatch ==
  Found =>
    /\ gen.k \in 1..CandidateCount(n)
    /\ item = Candidate(n, gen.k)
    /\ Satisfies(self, n, gen.k)
    /\ \A j \in 1..(gen.k - 1) : ~Satisfies(self, n, j)
    /\ result = Expression(full_func(self, item[1], item[2]))

\* a call that returned the first of several satisfying pairs
C1_Witness ==
  /\ Found
  /\ gen.k > 1
  /\ \E j \in (gen.k + 1)..CandidateCount(n) : Satisfies(self, n, j)

\* C2: the accepted pair, substituted into f_xx and d_xy at the three
\* stationary points, satisfies f_xx < 0 and d > 0 at the maximum, f_xx > 0
\* and d > 0 at the minimum, f_xx # 0 and d < 0 at the saddle.
C2_RoundTrip ==
  Found =>
    LET a == item[1]
        b == item[2]
        fxx(px, py) == Evalf(self.f_xx, FullSubs(px, py, a, b))
        d(px, py) == Evalf(self.d_xy, FullSubs(px, py, a, b))
    IN  /\ IsNumber(fxx(self.max_x, self.max_y)) /\ Value(fxx(self.max_x, self.max_y)) < 0
        /\ IsNumber(fxx(self.min_x, self.min_y)) /\ Value(fxx(self.min_x, self.min_y)) > 0
        /\ IsNumber(fxx(self.saddle_x, self.saddle_y)) /\ Value(fxx(self.saddle_x, self.saddle_y)) # 0
        /\ IsNumber(d(self.max_x, self.max_y)) /\ Value(d(self.max_x, self.max_y)) > 0
        /\ IsNumber(d(self.min_x, self.min_y)) /\ Value(d(self.min_x, self.min_y)) > 0
        /\ IsNumber(d(self.saddle_x, self.saddle_y)) /\ Value(d(self.saddle_x, self.saddle_y)) < 0

C2_Witness == Found /\ item # <<>> /\ result.expr # {}

\* an expression in x and y only, and not the zero expression
CompleteSolution(e) == e # {} /\ \A t \in e : t.e["A"] = 0 /\ t.e["B"] = 0

\* C3: solve(n) returns the message "Solution could not be found" exactly
\* when no pair of get_values(n) satisfies all six predicates, and a
\* complete expression otherwise; for n < 0 it returns the message without
\* taking any candidate.
C3_NotFoundIffNoPair ==
  pc = "done" =>
    /\ result.kind \in {"expression", "message"}
    /\ result.kind = "message" =>
         /\ result = Message(NotFoundMessage)
         /\ \A j \in 1..CandidateCount(n) : ~Satisfies(self, n, j)
    /\ result.kind = "expression" =>
         /\ CompleteSolution(result.expr)
         /\ result.text = ""
         /\ gen.k \in 1..CandidateCount(n)
         /\ Satisfies(self, n, gen.k)
    /\ n < 0 => NotFound /\ gen.k = 0 /\ item = <<>>

C3_Witness == NotFound /\ n >= 1 /\ gen.k = CandidateCount(n) /\ gen.k > 1

\* the number sequence 0, -1, 1, -2, 2, ...: its i-th entry, i from 1
ExpectedNumber(i) == IF i % 2 = 0 THEN -(i \div 2) ELSE (i - 1) \div 2

\* C4: for n >= 0 the generator yields the pairs of the number sequence
\* 0, -1, 1, ..., -n, n with itself in row-major order: the k-th pair has
\* the ((k-1) div (2n+1) + 1)-th number first and the
\* ((k-1) mod (2n+1) + 1)-th number second.
C4_EnumerationOrder ==
  (pc # "idle" /\ n >= 0) =>
    /\ gen.pool = [i \in 1..(2 * n + 1) |-> ExpectedNumber(i)]
    /\ gen.k >= 1 =>
         item = <<ExpectedNumber(((gen.k - 1) \div (2 * n + 1)) + 1),
                  ExpectedNumber(((gen.k - 1) % (2 * n + 1)) + 1)>>

C4_Witness ==
  /\ pc = "loop"
  /\ n >= 2
  /\ gen.k > 2 * n + 1
  /\ item[1] = -1
  /\ item[2] = n

\* number of occurrences of v in the sequence s
Occurrences(s, v) == Cardinality({i \in DOMAIN s : s[i] = v})

\* C5 as stated: the number sequence has 2n+2 entries, n twice, and the
\* candidate sequence (2n+2)^2 pairs.
C5_AsStated ==
  (pc # "idle" /\ n >= 0) =>
    /\ Len(gen.pool) = 2 * n + 2
    /\ Occurrences(gen.pool, n) = 2
    /\ ProductLen(gen.pool) = (2 * n + 2) * (2 * n + 2)
    /\ NotFound => gen.k = (2 * n + 2) * (2 * n + 2)

\* C5 (amended): for n >= 0 the candidate sequence has exactly (2n+1)^2
\* pairs: n occurs once in the number sequence, and a search that finds
\* nothing has taken (2n+1)^2 candidates.
C5_Length ==
  (pc # "idle" /\ n >= 0) =>
    /\ Occurrences(gen.pool, n) = 1
    /\ ProductLen(gen.pool) = (2 * n + 1) * (2 * n + 1)
    /\ gen.k <= (2 * n + 1) * (2 * n + 1)
    /\ NotFound => gen.k = (2 * n + 1) * (2 * n + 1)

C5_Witness == NotFound /\ n >= 2 /\ gen.k = (2 * n + 1) * (2 * n + 1)

\* C6: for n >= 0 the number sequence has length 2n+1 and contains every
\* integer from -n to n.
C6_NumberSequence ==
  (pc # "idle" /\ n >= 0) =>
    /\ Len(gen.pool) = 2 * n + 1
    /\ {gen.pool[i] : i \in DOMAIN gen.pool} = (-n)..n

C6_Witness == pc = "loop" /\ n >= 2 /\ Len(gen.pool) >= 5

\* C7 as stated: solve(0) examines (0, 0) and then its duplicate, and
\* returns the message.
C7_AsStated ==
  (pc = "done" /\ n = 0) => NotFound /\ item = <<0, 0>> /\ gen.k > 1

\* C7 (amended): solve(0) examines the pair (0, 0), once, and returns the
\* message for any stationary points.
C7_BoundZero ==
  /\ (pc = "done" /\ n = 0) => NotFound /\ item = <<0, 0>> /\ gen.k = 1
  /\ (pc = "loop" /\ n = 0 /\ gen.k >= 1) => item = <<0, 0>> /\ gen.k = 1

C7_Witness == NotFound /\ n = 0 /\ item = <<0, 0>>

\* what solve(bound) returns on the calculator c: the general form at the
\* first satisfying candidate, or the message
Outcome(c, bound) ==
  LET v == evaluate_derivative_at_stationary_points(c).values
      ok(k) == LET it == Candidate(bound, k)
               IN  All(evaluated_funcs(c, v, it[1], it[2]))
      hits == {k \in 1..CandidateCount(bound) : ok(k)}
  IN  IF hits = {} THEN Message(NotFoundMessage)
      ELSE LET first == CHOOSE k \in hits : \A j \in hits : k <= j
               it == Candidate(bound, first)
           IN  Expression(full_func(c, it[1], it[2]))

\* a calculator just built for the same stationary points, print_steps off
\* or on
Fresh(print_steps) ==
  NewCalculator(<<self.max_x, self.max_y>>, <<self.min_x, self.min_y>>,
                <<self.saddle_x, self.saddle_y>>, print_steps)

\* C8: no step of solve changes an attribute of the calculator, and what a
\* call solve(n) returns, whatever calls came before it, is what a newly
\* built calculator for the same three points returns for n with
\* print_steps off and with print_steps on.
C8_Deterministic ==
  /\ [][self' = self]_vars
  /\ []((pc = "done" /\ n \in Bounds) =>
          /\ result = Outcome(Fresh(FALSE), n)
          /\ result = Outcome(Fresh(TRUE), n))

C8_Witness == Found /\ self.print_steps /\ stdout # <<>> /\ n \in Bounds

\* -x^3/3 + 25x^2/2 - y^3/3 - 6y^2
ExampleSolution ==
  {Term(<<-1, 3>>, [One EXCEPT !["x"] = 3]),
   Term(<<25, 2>>, [One EXCEPT !["x"] = 2]),
   Term(<<-1, 3>>, [One EXCEPT !["y"] = 3]),
   Term(<<-6, 1>>, [One EXCEPT !["y"] = 2])}

\* C9: for maximum (25, 15), minimum (-5, -12), saddle (0, 0) and n = 1000
\* solve returns a solution, not the message: the accepted pair is
\* (-1, -1), the expression -x^3/3 + 25x^2/2 - y^3/3 - 6y^2, reached within
\* the (2n+1)^2 candidates (the third of the second row).
C9_Example ==
  /\ IsExample =>
        full_func(self, -1, -1) = ExampleSolution
  /\ (IsExample /\ n = ExampleN /\ pc = "done") =>
        /\ result = Expression(ExampleSolution)
        /\ item = <<-1, -1>>
        /\ gen.k <= (2 * ExampleN + 1) * (2 * ExampleN + 1)
  /\ (IsExample /\ n = ExampleN /\ pc = "loop") => gen.k < 2 * ExampleN + 3

C9_Witness == IsExample /\ n = ExampleN /\ Found

Sign(k) == IF k < 0 THEN -1 ELSE IF k > 0 THEN 1 ELSE 0

\* C10: a pair is accepted exactly when the pair of its signs satisfies the
\* six predicates, and never when A = 0 or B = 0; so for n >= 1 solve(n)
\* returns what solve(1) returns, and an accepted pair has A and B in
\* {-1, 1}.
C10_SignsOnly ==
  /\ (pc # "idle" /\ gen.k >= 1) =>
        /\ (Found <=> SixPredicates(self, Sign(item[1]), Sign(item[2])))
        /\ (item[1] = 0 \/ item[2] = 0) => ~Found
  /\ (pc = "done" /\ n >= 1) =>
        /\ result = Outcome(self, 1)
        /\ Found => item[1] \in {-1, 1} /\ item[2] \in {-1, 1}

C10_Witness == Found /\ n >= 2 /\ item[1] # item[2]

====
